---- MODULE Spec2Model ----
(***************************************************************************)
(* A model of the ValidatedForm component of remix-validated-form          *)
(* (packages/remix-validated-form/src/ValidatedForm.tsx): its hook state   *)
(* (field errors, touched fields, hasBeenSubmitted), the values it derives *)
(* from Remix on every render (the error response for this form,          *)
(* isSubmitting, the default values), its submit / reset handlers, the     *)
(* context mutators, and the first-invalid-input focus routine.            *)
(*                                                                         *)
(* One step of the model is one event of the UI event loop: the handler    *)
(* runs, React re-renders the mounted forms and runs their effects.        *)
(***************************************************************************)
EXTENDS Integers, Sequences, FiniteSets, TLC

VARIABLES
    cfg,              \* props and children of every form of the page (fixed)
    route,            \* what the page's action can answer, and its other forms
    formRef,          \* formRef.current is set (the form element is mounted)
    actionData,       \* useActionData(): the page's last action response
    transition,       \* useTransition().submission: the pending page submission
    fetcher,          \* the useFetcher handle of a form configured with one
    fieldErrors,      \* useFieldErrors state: [obj, ref] per form
    touchedFields,    \* useState<TouchedFields>
    hasBeenSubmitted, \* useState(false)
    payload,          \* the values of the form's inputs (what FormData reads)
    handlers,         \* customFocusHandlers: field name -> registered handlers
    isPending,        \* the flag of the submit-complete watcher
    effectDeps,       \* the dependency the useFieldErrors effect last ran with
    rendered,         \* what the last render derived: backendError, isSubmitting, defaults
    context,          \* the memoised context value (FormState) and its dependencies
    calls             \* the calls the code made during the last step

vars == <<cfg, route, formRef, actionData, transition, fetcher, fieldErrors,
          touchedFields, hasBeenSubmitted, payload, handlers, isPending,
          effectDeps, rendered, context, calls>>

-----------------------------------------------------------------------------
(* Values *)

Undefined == "undefined"
Null == "null"

\* JavaScript truthiness of a string-or-missing value
Truthy(v) == v \notin {Undefined, Null, ""}

\* the bound on the handlers one field name can have registered
MaxHandlers == 2

FormIds == {1, 2}
Fields == {"a", "b"}
Values == {"", "x"}
PageAction == "/page"

EmptyObj == [n \in {} |-> ""]

\* an object reference: objects made by the form itself and objects that
\* arrive in a response are told apart by their owner
NoRef == [own |-> "none", id |-> 0]

\* a missing optional payload (defaultValues, repopulateFields)
Absent == [present |-> FALSE, vals |-> EmptyObj]
Present(v) == [present |-> TRUE, vals |-> v]

NoData == [kind |-> "none", fieldErrors |-> EmptyObj, subaction |-> Undefined,
           repopulateFields |-> Absent, ref |-> NoRef]

NoSubmission == [pending |-> FALSE, action |-> Undefined, subaction |-> Null]

IdleFetcher == [state |-> "idle", data |-> NoData]

-----------------------------------------------------------------------------
(* The hooks of ValidatedForm.tsx, as functions of what they read *)

\* `fetcher` is the handle, or NoFetcher when the prop is not given
NoFetcher == [state |-> "none", data |-> NoData]

HasFieldErrors(d) == d.kind = "error"

\* a lookup that takes any error response of the page, whatever its subaction
useErrorResponseForThisForm_AnySubaction(fetcherArg, subaction, ad) ==
    IF fetcherArg.state /= "none"
    THEN IF HasFieldErrors(fetcherArg.data) THEN fetcherArg.data ELSE NoData
    ELSE IF ~HasFieldErrors(ad) THEN NoData ELSE ad

useErrorResponseForThisForm(fetcherArg, subaction, ad) ==
    IF fetcherArg.state /= "none"
    THEN IF HasFieldErrors(fetcherArg.data) THEN fetcherArg.data ELSE NoData
    ELSE IF ~HasFieldErrors(ad) THEN NoData
    ELSE IF (~Truthy(subaction) /\ ~Truthy(ad.subaction)) \/ ad.subaction = subaction
         THEN ad
         ELSE NoData

\* a derivation that does not compare the action of the pending submission
useIsSubmitting_AnyAction(action, subaction, fetcherArg, actionForCurrentPage, pendingFormSubmit) ==
    IF fetcherArg.state /= "none" THEN fetcherArg.state = "submitting"
    ELSE IF ~pendingFormSubmit.pending THEN FALSE
    ELSE IF Truthy(subaction)
         THEN subaction = pendingFormSubmit.subaction
         ELSE ~Truthy(pendingFormSubmit.subaction)

useIsSubmitting(action, subaction, fetcherArg, actionForCurrentPage, pendingFormSubmit) ==
    IF fetcherArg.state /= "none" THEN fetcherArg.state = "submitting"
    ELSE IF ~pendingFormSubmit.pending THEN FALSE
    ELSE LET pendingAction == pendingFormSubmit.action
             pendingSubAction == pendingFormSubmit.subaction
             expectedAction == IF action \in {Undefined, Null}
                               THEN actionForCurrentPage ELSE action
         IN IF Truthy(subaction)
            THEN expectedAction = pendingAction /\ subaction = pendingSubAction
            ELSE expectedAction = pendingAction /\ ~Truthy(pendingSubAction)

\* a resolution that prefers the caller's default values
useDefaultValues_StaticFirst(repopulateFieldsFromBackend, defaultValues) ==
    IF defaultValues.present
    THEN defaultValues ELSE repopulateFieldsFromBackend

useDefaultValues(repopulateFieldsFromBackend, defaultValues) ==
    IF repopulateFieldsFromBackend.present
    THEN repopulateFieldsFromBackend ELSE defaultValues

-----------------------------------------------------------------------------
(* The Validator contract, here a validator of required fields *)

validate(required, P) ==
    LET bad == {n \in required : n \notin DOMAIN P \/ P[n] = ""}
    IN [error |-> bad /= {},
        fieldErrors |-> [n \in bad |-> "required"],
        data |-> Present(P)]

validateField(required, P, fieldName) ==
    LET bad == fieldName \in required /\ (fieldName \notin DOMAIN P \/ P[fieldName] = "")
    IN [hasError |-> bad, error |-> IF bad THEN "required" ELSE ""]

-----------------------------------------------------------------------------
(* Calls observed during a step *)

Call(c, f, n, h, d) == [call |-> c, form |-> f, name |-> n, h |-> h, data |-> d]

CallsIn(cs, c, f) == SelectSeq(cs, LAMBDA x : x.call = c /\ x.form = f)
CallsOf(c, f) == CallsIn(calls, c, f)

-----------------------------------------------------------------------------
(* internal/util and internal/MultiValueMap *)

\* a new object of form f: a reference the current state object does not have
FreshRef(f) ==
    IF fieldErrors[f].ref = [own |-> "form", id |-> 0]
    THEN [own |-> "form", id |-> 1]
    ELSE [own |-> "form", id |-> 0]

Without(obj, key) == [n \in (DOMAIN obj) \ {key} |-> obj[n]]

\* omit(prev, key) on the state object [obj, ref]
omit(prev, key, fresh) ==
    IF key \in DOMAIN prev.obj
    THEN [obj |-> Without(prev.obj, key), ref |-> fresh]
    ELSE prev

has(hs, key) == Len(hs[key]) > 0
getAll(hs, key) == hs[key]
add(hs, key, h) == [hs EXCEPT ![key] = Append(@, h)]

RECURSIVE RemoveFirst(_, _)
RemoveFirst(s, h) ==
    IF s = <<>> THEN <<>>
    ELSE IF Head(s) = h THEN Tail(s)
    ELSE <<Head(s)>> \o RemoveFirst(Tail(s), h)

remove(hs, key, h) == [hs EXCEPT ![key] = RemoveFirst(@, h)]

-----------------------------------------------------------------------------
(* focusFirstInvalidInput *)

\* querySelectorAll of the selector built from the keys of fieldErrors:
\* the form's input elements with one of these names, in document order (a
\* control that is not an input element, such as a select, is not selected)
InvalidInputs(fe, inputs) ==
    SelectSeq(inputs, LAMBDA i : i.name \in DOMAIN fe /\ i.type /= "select")

\* a loop that does not skip hidden inputs
RECURSIVE FocusLoop_NoSkip(_, _, _)
FocusLoop_NoSkip(f, hs, invalidInputs) ==
    IF invalidInputs = <<>> THEN <<>>
    ELSE LET input == Head(invalidInputs) IN
         IF has(hs, input.name)
         THEN [k \in 1..Len(getAll(hs, input.name)) |->
                  Call("handler", f, input.name, getAll(hs, input.name)[k], Absent)]
         ELSE <<Call("focus", f, input.name, 0, Absent)>>

RECURSIVE FocusLoop(_, _, _)
FocusLoop(f, hs, invalidInputs) ==
    IF invalidInputs = <<>> THEN <<>>
    ELSE LET input == Head(invalidInputs) IN
         IF has(hs, input.name)
         THEN [k \in 1..Len(getAll(hs, input.name)) |->
                  Call("handler", f, input.name, getAll(hs, input.name)[k], Absent)]
         ELSE IF input.type = "hidden"
         THEN FocusLoop(f, hs, Tail(invalidInputs))
         ELSE <<Call("focus", f, input.name, 0, Absent)>>

\* a routine that goes through the invalid inputs from the last to the first
focusFirstInvalidInput_LastFirst(f, fe, hs, inputs) ==
    LET inv == InvalidInputs(fe, inputs)
    IN FocusLoop(f, hs, [k \in 1..Len(inv) |-> inv[Len(inv) + 1 - k]])

focusFirstInvalidInput(f, fe, hs, inputs) ==
    FocusLoop(f, hs, InvalidInputs(fe, inputs))

-----------------------------------------------------------------------------
(* One render of ValidatedForm and the effects that follow it *)

FetcherArg(g, ft) == IF cfg[g].fetcher THEN ft[g] ELSE NoFetcher

\* the body of ValidatedForm up to the context value
RenderForm(g, ad, tr, ft) ==
    LET backendError == useErrorResponseForThisForm(FetcherArg(g, ft), cfg[g].subaction, ad)
    IN [backendError |-> backendError,
        isSubmitting |-> useIsSubmitting(cfg[g].action, cfg[g].subaction,
                                         FetcherArg(g, ft), PageAction, tr),
        defaults |-> useDefaultValues(backendError.repopulateFields, cfg[g].defaultValues)]

\* the hook state of form g as it stands
HookState(g) ==
    [fieldErrors |-> fieldErrors[g], touchedFields |-> touchedFields[g],
     hasBeenSubmitted |-> hasBeenSubmitted[g], payload |-> payload[g], calls |-> <<>>]

\* a reset of the form element puts the default values back into its inputs
ResetValues(g, defaults) ==
    [n \in DOMAIN payload[g] |->
        IF defaults.present /\ n \in DOMAIN defaults.vals THEN defaults.vals[n] ELSE ""]

\* a reset handler that does not look at event.defaultPrevented
onReset_IgnoreCancel(g, h, defaults, cancel) ==
    [fieldErrors |-> [obj |-> EmptyObj, ref |-> FreshRef(g)],
     touchedFields |-> EmptyObj,
     hasBeenSubmitted |-> FALSE,
     payload |-> h.payload,
     calls |-> h.calls \o <<Call("onReset", g, IF cancel THEN "cancel" ELSE "", 0, Absent)>>]

\* the onReset handler of the form, for a reset event the caller's handler
\* cancels or lets through
onReset(g, h, defaults, cancel) ==
    IF cancel
    THEN [h EXCEPT !.calls = @ \o <<Call("onReset", g, "cancel", 0, Absent)>>]
    ELSE [fieldErrors |-> [obj |-> EmptyObj, ref |-> FreshRef(g)],
          touchedFields |-> EmptyObj,
          hasBeenSubmitted |-> FALSE,
          payload |-> ResetValues(g, defaults),
          calls |-> h.calls \o <<Call("onReset", g, "", 0, Absent)>>]

\* an effect that empties the store when the response has no fieldErrors
FieldErrorsEffect_ClearOnNoError(g, r, h) ==
    IF r.backendError.ref = effectDeps[g] THEN h
    ELSE IF HasFieldErrors(r.backendError)
    THEN [h EXCEPT !.fieldErrors = [obj |-> r.backendError.fieldErrors,
                                    ref |-> r.backendError.ref]]
    ELSE [h EXCEPT !.fieldErrors = [obj |-> EmptyObj, ref |-> FreshRef(g)]]

\* an effect that seeds the store only while it has no entries
FieldErrorsEffect_KeepLocal(g, r, h) ==
    IF r.backendError.ref /= effectDeps[g] /\ HasFieldErrors(r.backendError)
       /\ h.fieldErrors.obj = EmptyObj
    THEN [h EXCEPT !.fieldErrors = [obj |-> r.backendError.fieldErrors,
                                    ref |-> r.backendError.ref]]
    ELSE h

\* the effect of useFieldErrors: it runs when fieldErrorsFromBackend changed
FieldErrorsEffect(g, r, h) ==
    IF r.backendError.ref /= effectDeps[g] /\ HasFieldErrors(r.backendError)
    THEN [h EXCEPT !.fieldErrors = [obj |-> r.backendError.fieldErrors,
                                    ref |-> r.backendError.ref]]
    ELSE h

\* a completion callback that resets the form whatever the response was
SubmitCompleteCallback_AlwaysReset(g, r, h, cancel) ==
    LET h1 == [h EXCEPT !.calls = @ \o <<Call("complete", g, "", 0, Absent)>>]
    IN IF cfg[g].resetAfterSubmit /\ formRef[g]
       THEN onReset(g, h1, r.defaults, cancel)
       ELSE h1

\* the callback ValidatedForm gives to useSubmitComplete
SubmitCompleteCallback(g, r, h, cancel) ==
    LET h1 == [h EXCEPT !.calls = @ \o <<Call("complete", g, "", 0, Absent)>>]
    IN IF ~HasFieldErrors(r.backendError) /\ cfg[g].resetAfterSubmit /\ formRef[g]
       THEN onReset(g, h1, r.defaults, cancel)
       ELSE h1

\* a watcher that runs the callback on every render that is not submitting
useSubmitComplete_EveryRender(g, r, h, cancel) ==
    IF ~r.isSubmitting
    THEN [h EXCEPT !.calls = @ \o <<Call("complete", g, "", 0, Absent)>>]
    ELSE h

\* useSubmitComplete: the callback runs on the render that sees isSubmitting
\* false after a render that saw it true
useSubmitComplete(g, r, h, cancel) ==
    IF ~r.isSubmitting /\ isPending[g]
    THEN SubmitCompleteCallback(g, r, h, cancel)
    ELSE h

\* the object the useMemo of ValidatedForm builds: the FormState part
ContextValue(h, r) ==
    [fieldErrors |-> h.fieldErrors.obj,
     defaultValues |-> r.defaults,
     isSubmitting |-> r.isSubmitting,
     isValid |-> DOMAIN h.fieldErrors.obj = {},
     touchedFields |-> h.touchedFields,
     hasBeenSubmitted |-> h.hasBeenSubmitted]

\* a dependency list without fieldErrors
ContextDeps_NoFieldErrors(h, r) ==
    [defaultsToUse |-> r.defaults,
     isSubmitting |-> r.isSubmitting,
     touchedFields |-> h.touchedFields,
     hasBeenSubmitted |-> h.hasBeenSubmitted]

\* the dependencies of that useMemo that can change: state objects are
\* compared by reference
ContextDeps(h, r) ==
    [fieldErrors |-> h.fieldErrors.ref,
     defaultsToUse |-> r.defaults,
     isSubmitting |-> r.isSubmitting,
     touchedFields |-> h.touchedFields,
     hasBeenSubmitted |-> h.hasBeenSubmitted]

\* useMemo: the value is built again when a dependency changed
useMemo(prev, h, r) ==
    IF prev.deps = ContextDeps(h, r) THEN prev
    ELSE [deps |-> ContextDeps(h, r), value |-> ContextValue(h, r)]

\* render form g under the environment (ad, tr, ft) with hook state h, run
\* its effects, and render again
CommitForm(g, ad, tr, ft, h, cancel) ==
    LET r == RenderForm(g, ad, tr, ft)
        h1 == FieldErrorsEffect(g, r, h)
        h2 == useSubmitComplete(g, r, h1, cancel)
    IN [hook |-> h2, rendered |-> r, isPending |-> r.isSubmitting,
        effectDeps |-> r.backendError.ref,
        context |-> useMemo(useMemo(context[g], h, r), h2, r)]

Mounted == {g \in DOMAIN cfg : formRef[g]}

RECURSIVE Concat(_, _)
Concat(c, S) ==
    IF S = {} THEN <<>>
    ELSE LET g == CHOOSE x \in S : \A y \in S : x <= y
         IN c[g] \o Concat(c, S \ {g})

\* One step: form f's handler made the calls pre and left its hooks in state
\* h (f = 0: no handler ran), the environment is now (ad, tr, ft), and every
\* form of M renders
StepOn(M, f, h, pre, ad, tr, ft, cancel) ==
    LET H(g) == IF g = f THEN h ELSE HookState(g)
        C == [g \in M |-> CommitForm(g, ad, tr, ft, H(g), cancel)]
        Upd(old, field) == [g \in DOMAIN cfg |->
                               IF g \in M THEN C[g].hook[field] ELSE old[g]]
    IN /\ actionData' = ad
       /\ transition' = tr
       /\ fetcher' = ft
       /\ fieldErrors' = Upd(fieldErrors, "fieldErrors")
       /\ touchedFields' = Upd(touchedFields, "touchedFields")
       /\ hasBeenSubmitted' = Upd(hasBeenSubmitted, "hasBeenSubmitted")
       /\ payload' = Upd(payload, "payload")
       /\ isPending' = [g \in DOMAIN cfg |-> IF g \in M THEN C[g].isPending ELSE isPending[g]]
       /\ effectDeps' = [g \in DOMAIN cfg |-> IF g \in M THEN C[g].effectDeps ELSE effectDeps[g]]
       /\ rendered' = [g \in DOMAIN cfg |-> IF g \in M THEN C[g].rendered ELSE rendered[g]]
       /\ context' = [g \in DOMAIN cfg |-> IF g \in M THEN C[g].context ELSE context[g]]
       /\ calls' = pre \o Concat([g \in M |-> C[g].hook.calls], M)
       /\ UNCHANGED <<cfg, route>>

Step(f, h, pre, ad, tr, ft, cancel) ==
    StepOn(Mounted, f, h, pre, ad, tr, ft, cancel) /\ UNCHANGED formRef

\* a step in which no handler of a form ran
NoHook == [calls |-> <<>>]

-----------------------------------------------------------------------------
(* What the environment can send *)

ServerErrors == ("a" :> "server")
Repopulated == Present(("a" :> "x" @@ "b" :> "x"))

EnvRefIds ==
    {actionData.ref.id} \cup {fetcher[g].data.ref.id : g \in DOMAIN cfg}
    \cup {fieldErrors[g].ref.id : g \in {x \in DOMAIN cfg : fieldErrors[x].ref.own = "env"}}
    \cup {effectDeps[g].id : g \in DOMAIN cfg}

\* the reference of an object that has just arrived: no live object has it
FreshEnvRef ==
    [own |-> "env",
     id |-> CHOOSE i \in 1..(Cardinality(EnvRefIds) + 1) :
               i \notin EnvRefIds /\ \A j \in 1..(i - 1) : j \in EnvRefIds]

\* what the action of the route answers: validationError(...) responses with
\* the subaction tags and repopulation payloads of the route, other
\* responses, and no response data
Responses(ref) ==
    {[kind |-> "error", fieldErrors |-> ServerErrors, subaction |-> s,
      repopulateFields |-> rp, ref |-> ref] : s \in route.tags, rp \in route.repopulate}
    \cup {[kind |-> "ok", fieldErrors |-> EmptyObj, subaction |-> Undefined,
           repopulateFields |-> Absent, ref |-> ref]}
    \cup {NoData}

\* page submissions made by something else than the forms of the model
Foreign(a, s) == [pending |-> TRUE, action |-> a, subaction |-> s]

-----------------------------------------------------------------------------
(* Events *)

IsForm(f) == f \in DOMAIN cfg

\* the first commit of the form: the ref is attached and the effects run
Mount(f) ==
    /\ IsForm(f) /\ ~formRef[f]
    /\ formRef' = [formRef EXCEPT ![f] = TRUE]
    /\ StepOn(Mounted \cup {f}, 0, NoHook, <<>>, actionData, transition, fetcher, FALSE)
    /\ UNCHANGED handlers

\* the user edits an input
SetValue(f, n, v) ==
    /\ IsForm(f) /\ formRef[f]
    /\ n \in DOMAIN payload[f] /\ payload[f][n] /= v
    /\ Step(f, [HookState(f) EXCEPT !.payload = [payload[f] EXCEPT ![n] = v]], <<>>,
            actionData, transition, fetcher, FALSE)
    /\ UNCHANGED handlers

\* a setFieldTouched that keeps only the other entries when touched is false
setFieldTouched_DropFalse(f, fieldName, touched) ==
    /\ IsForm(f) /\ formRef[f]
    /\ fieldName \in cfg[f].touchable
    /\ LET prev == touchedFields[f]
           keys == IF touched THEN DOMAIN prev \cup {fieldName}
                   ELSE DOMAIN prev \ {fieldName}
           new == [n \in keys |-> IF n = fieldName THEN touched ELSE prev[n]]
       IN Step(f, [HookState(f) EXCEPT !.touchedFields = new], <<>>,
               actionData, transition, fetcher, FALSE)
    /\ UNCHANGED handlers

setFieldTouched(f, fieldName, touched) ==
    /\ IsForm(f) /\ formRef[f]
    /\ fieldName \in cfg[f].touchable
    /\ LET prev == touchedFields[f]
           new == [n \in DOMAIN prev \cup {fieldName} |->
                      IF n = fieldName THEN touched ELSE prev[n]]
       IN Step(f, [HookState(f) EXCEPT !.touchedFields = new], <<>>,
               actionData, transition, fetcher, FALSE)
    /\ UNCHANGED handlers

\* an updater that copies the store before it removes the key
ClearErrorUpdate_Copy(f, prev, fieldName) ==
    [obj |-> Without(prev.obj, fieldName), ref |-> FreshRef(f)]

\* the updater clearError gives to setFieldErrors
ClearErrorUpdate(f, prev, fieldName) == omit(prev, fieldName, FreshRef(f))

clearError(f, fieldName) ==
    /\ IsForm(f) /\ formRef[f]
    /\ fieldName \in cfg[f].validated
    /\ Step(f, [HookState(f) EXCEPT
                   !.fieldErrors = ClearErrorUpdate(f, fieldErrors[f], fieldName)],
            <<Call("clearError", f, fieldName, 0, Absent)>>,
            actionData, transition, fetcher, FALSE)
    /\ UNCHANGED handlers

\* an error updater that does not compare with the previous message
SetError_NoCompare(f, prev, fieldName, error) ==
    [obj |-> [n \in DOMAIN prev.obj \cup {fieldName} |->
                 IF n = fieldName THEN error ELSE prev.obj[n]],
     ref |-> FreshRef(f)]

\* the two updaters of validateField
SetError(f, prev, fieldName, error) ==
    IF fieldName \in DOMAIN prev.obj /\ prev.obj[fieldName] = error THEN prev
    ELSE [obj |-> [n \in DOMAIN prev.obj \cup {fieldName} |->
                      IF n = fieldName THEN error ELSE prev.obj[n]],
          ref |-> FreshRef(f)]

DropError(f, prev, fieldName) ==
    IF fieldName \notin DOMAIN prev.obj THEN prev
    ELSE omit(prev, fieldName, FreshRef(f))

\* an update that replaces the whole store by the error of the one field
ValidateFieldUpdate_Replace(f, fieldName) ==
    LET res == validateField(cfg[f].required, payload[f], fieldName)
    IN IF res.hasError
       THEN [obj |-> [n \in {fieldName} |-> res.error], ref |-> FreshRef(f)]
       ELSE DropError(f, fieldErrors[f], fieldName)

ValidateFieldUpdate(f, fieldName) ==
    LET res == validateField(cfg[f].required, payload[f], fieldName)
    IN IF res.hasError
       THEN SetError(f, fieldErrors[f], fieldName, res.error)
       ELSE DropError(f, fieldErrors[f], fieldName)

\* a validateField that does not test formRef.current
ValidateField_NoInvariant(f, fieldName) ==
    /\ IsForm(f)
    /\ fieldName \in cfg[f].validated
    /\ Step(f, [HookState(f) EXCEPT
                   !.fieldErrors = ValidateFieldUpdate(f, fieldName)],
            <<Call("validateField", f, fieldName, 0, Absent)>>,
            actionData, transition, fetcher, FALSE)
    /\ UNCHANGED handlers

ValidateField(f, fieldName) ==
    /\ IsForm(f)
    /\ fieldName \in cfg[f].validated
    /\ IF ~formRef[f]
       THEN Step(0, NoHook, <<Call("invariant", f, fieldName, 0, Absent)>>,
                 actionData, transition, fetcher, FALSE)
       ELSE Step(f, [HookState(f) EXCEPT
                        !.fieldErrors = ValidateFieldUpdate(f, fieldName)],
                 <<Call("validateField", f, fieldName, 0, Absent)>>,
                 actionData, transition, fetcher, FALSE)
    /\ UNCHANGED handlers

registerReceiveFocus(f, fieldName, h) ==
    /\ IsForm(f) /\ formRef[f]
    /\ fieldName \in cfg[f].widgets
    /\ Len(handlers[f][fieldName]) < MaxHandlers
    /\ handlers' = [handlers EXCEPT ![f] = add(@, fieldName, h)]
    /\ Step(0, NoHook, <<>>, actionData, transition, fetcher, FALSE)

unregisterReceiveFocus(f, fieldName, h) ==
    /\ IsForm(f) /\ formRef[f]
    /\ has(handlers[f], fieldName)
    /\ handlers' = [handlers EXCEPT ![f] = remove(@, fieldName, h)]
    /\ Step(0, NoHook, <<>>, actionData, transition, fetcher, FALSE)

\* the submission the form makes when its submit event is not cancelled
PendingSubmit(f) ==
    [pending |-> TRUE,
     action |-> IF cfg[f].action \in {Undefined, Null} THEN PageAction ELSE cfg[f].action,
     subaction |-> IF Truthy(cfg[f].subaction) THEN cfg[f].subaction ELSE Null]

\* a failure branch that merges the new errors into the previous store
FailureErrors_Merge(f, prev, result) ==
    [obj |-> [n \in DOMAIN prev.obj \cup DOMAIN result.fieldErrors |->
                 IF n \in DOMAIN result.fieldErrors
                 THEN result.fieldErrors[n] ELSE prev.obj[n]],
     ref |-> FreshRef(f)]

\* the failure branch of onSubmit: the new Field Error Store and the calls
FailureErrors(f, prev, result) == [obj |-> result.fieldErrors, ref |-> FreshRef(f)]

\* a failure branch that does not look at disableFocusOnError
FailureCalls_AlwaysFocus(f, result) ==
    <<Call("preventDefault", f, "", 0, Absent)>>
    \o focusFirstInvalidInput(f, result.fieldErrors, handlers[f], cfg[f].inputs)

FailureCalls(f, result) ==
    <<Call("preventDefault", f, "", 0, Absent)>>
    \o (IF ~cfg[f].disableFocusOnError
        THEN focusFirstInvalidInput(f, result.fieldErrors, handlers[f], cfg[f].inputs)
        ELSE <<>>)

\* a success branch that hands the callback the whole result
SuccessCalls_WholeResult(f, result) ==
    IF cfg[f].hasOnSubmit
    THEN <<Call("onSubmit", f, "", 0, Present([data |-> result.data.vals]))>>
    ELSE <<>>

\* the success branch of onSubmit: the caller's callback, if there is one
SuccessCalls(f, result) ==
    IF cfg[f].hasOnSubmit THEN <<Call("onSubmit", f, "", 0, result.data)>> ELSE <<>>

\* the onSubmit handler of the form; cbPrevents: the caller's onSubmit
\* callback calls event.preventDefault()
onSubmit(f, cbPrevents, cancel) ==
    /\ IsForm(f) /\ formRef[f]
    /\ LET result == validate(cfg[f].required, payload[f])
           h0 == [HookState(f) EXCEPT !.hasBeenSubmitted = TRUE]
       IN IF result.error
          THEN /\ ~cbPrevents
               /\ Step(f, [h0 EXCEPT !.fieldErrors =
                                         FailureErrors(f, fieldErrors[f], result)],
                       FailureCalls(f, result),
                       actionData, transition, fetcher, cancel)
          ELSE LET prevented == cfg[f].hasOnSubmit /\ cbPrevents
                   cb == SuccessCalls(f, result)
                   net == IF prevented THEN <<>> ELSE <<Call("submit", f, "", 0, Absent)>>
                   tr == IF prevented \/ cfg[f].fetcher THEN transition ELSE PendingSubmit(f)
                   ft == IF prevented \/ ~cfg[f].fetcher THEN fetcher
                         ELSE [fetcher EXCEPT ![f].state = "submitting"]
               IN /\ cbPrevents => cfg[f].hasOnSubmit
                  /\ Step(f, h0, cb \o net, actionData, tr, ft, cancel)
    /\ UNCHANGED handlers

\* the user resets the form (a reset button)
Reset(f, cancel) ==
    /\ IsForm(f) /\ formRef[f]
    /\ Step(f, onReset(f, HookState(f), rendered[f].defaults, cancel), <<>>,
            actionData, transition, fetcher, cancel)
    /\ UNCHANGED handlers

\* a page submission that none of the forms made
ForeignSubmit(sub, cancel) ==
    /\ sub \in route.foreign
    /\ sub /= transition
    /\ Step(0, NoHook, <<>>, actionData, sub, fetcher, cancel)
    /\ UNCHANGED handlers

\* the action of the pending page submission answers
ActionResponse(d, cancel) ==
    /\ transition.pending
    /\ d \in Responses(FreshEnvRef)
    /\ Step(0, NoHook, <<>>, d, transition, fetcher, cancel)
    /\ UNCHANGED handlers

\* the page transition returns to idle
TransitionIdle(cancel) ==
    /\ transition.pending
    /\ Step(0, NoHook, <<>>, actionData, NoSubmission, fetcher, cancel)
    /\ UNCHANGED handlers

FetcherResponse(f, d, cancel) ==
    /\ IsForm(f) /\ cfg[f].fetcher /\ fetcher[f].state = "submitting"
    /\ d \in Responses(FreshEnvRef)
    /\ Step(0, NoHook, <<>>, actionData, transition,
            [fetcher EXCEPT ![f] = [state |-> "loading", data |-> d]], cancel)
    /\ UNCHANGED handlers

FetcherIdle(f) ==
    /\ IsForm(f) /\ cfg[f].fetcher /\ fetcher[f].state = "loading"
    /\ Step(0, NoHook, <<>>, actionData, transition,
            [fetcher EXCEPT ![f].state = "idle"], FALSE)
    /\ UNCHANGED handlers

\* the component re-renders with nothing changed
Rerender ==
    /\ Mounted /= {}
    /\ Step(0, NoHook, <<>>, actionData, transition, fetcher, FALSE)
    /\ UNCHANGED handlers

-----------------------------------------------------------------------------
(* Pages *)

Input(n, t) == [name |-> n, type |-> t]

\* the props of a form
Props(sub, act, ftch, ras, dfe, cb, dv, inputs, req) ==
    [subaction |-> sub, action |-> act, fetcher |-> ftch, resetAfterSubmit |-> ras,
     disableFocusOnError |-> dfe, hasOnSubmit |-> cb, defaultValues |-> dv,
     inputs |-> inputs, required |-> req]

\* the field components under a form: the names they call setFieldTouched
\* for, the names they call validateField and clearError for, the names they
\* register a custom focus handler for
Children(touchable, validated, widgets) ==
    [touchable |-> touchable, validated |-> validated, widgets |-> widgets]

\* document: the page can be first rendered with the response of a document
\* submission (a submission without JavaScript)
Route(tags, repopulate, foreign, document) ==
    [tags |-> tags, repopulate |-> repopulate, foreign |-> foreign,
     document |-> document]

Page(forms, r) == [forms |-> forms, route |-> r]

TextAB == <<Input("a", "text"), Input("b", "text")>>

\* one form, validated on the client and by the action (routes/validation.tsx)
ValidationPage ==
    Page(1 :> (Props(Undefined, Undefined, FALSE, FALSE, FALSE, FALSE, Absent,
                     TextAB, {"a", "b"})
               @@ Children({}, {"a", "b"}, {})),
         Route({Undefined}, {Absent, Repopulated}, {}, TRUE))

\* one form with a success callback that is reset after each submission
TouchPage ==
    Page(1 :> (Props(Undefined, Undefined, FALSE, TRUE, FALSE, TRUE,
                     Present(("a" :> "x")), TextAB, {"a"})
               @@ Children({"a", "b"}, {}, {})),
         Route({Undefined}, {Repopulated}, {}, FALSE))

\* forms whose first input is hidden, with and without custom focus handlers
FocusPages ==
    { Page(1 :> (Props(Undefined, Undefined, FALSE, FALSE, dfe, FALSE, Absent,
                       inputs, {"a", "b"})
                 @@ Children({}, {}, widgets)),
           Route({}, {}, {}, FALSE)) :
        dfe \in BOOLEAN,
        inputs \in {<<Input("a", "hidden"), Input("b", "text")>>,
                    <<Input("a", "hidden"), Input("b", "hidden")>>,
                    <<Input("b", "text"), Input("a", "text")>>},
        widgets \in {{}, {"a"}} }

\* a form whose field a is a select with a custom focus handler
WidgetPage ==
    Page(1 :> (Props(Undefined, Undefined, FALSE, FALSE, FALSE, FALSE, Absent,
                     <<Input("a", "select"), Input("b", "text")>>, {"a", "b"})
               @@ Children({}, {}, {"a"})),
         Route({}, {}, {}, FALSE))

\* one form that submits through a fetcher to another action
FetcherPage ==
    Page(1 :> (Props("s1", "/other", TRUE, TRUE, FALSE, FALSE, Absent,
                     <<Input("a", "text")>>, {"a"})
               @@ Children({}, {"a"}, {})),
         Route({"s2"}, {Repopulated}, {}, FALSE))

\* one form with an explicit action on a page with other submissions
ActionPage ==
    Page(1 :> (Props("s1", "/other", FALSE, TRUE, FALSE, FALSE, Absent,
                     <<Input("a", "text")>>, {"a"})
               @@ Children({}, {}, {})),
         Route({Undefined, "s1"}, {Absent},
               {Foreign("/other", Null), Foreign(PageAction, "s1")}, TRUE))

\* two forms that share the page's action and differ in their subaction (the
\* subaction route of the test app); the second is a form of buttons only
SubactionPage ==
    Page(1 :> (Props("s1", Undefined, FALSE, TRUE, FALSE, FALSE, Absent,
                     <<Input("a", "text")>>, {})
               @@ Children({}, {}, {}))
         @@ 2 :> (Props("s2", Undefined, FALSE, TRUE, FALSE, FALSE, Absent,
                        <<>>, {})
                  @@ Children({}, {}, {})),
         Route({"s1", "s2"}, {Repopulated}, {}, FALSE))

Pages == {ValidationPage, TouchPage, FetcherPage, ActionPage, SubactionPage,
          WidgetPage}
         \cup FocusPages

InitialValues(c, defaults) ==
    [n \in {c.inputs[i].name : i \in 1..Len(c.inputs)} |->
        IF defaults.present /\ n \in DOMAIN defaults.vals THEN defaults.vals[n] ELSE ""]

\* the page may be rendered with the response of a document submission
InitialActionData(r) ==
    {NoData} \cup {[kind |-> "error", fieldErrors |-> ServerErrors, subaction |-> s,
                    repopulateFields |-> rp, ref |-> [own |-> "env", id |-> 1]] :
                       s \in {x \in r.tags : r.document},
                       rp \in {x \in r.repopulate : r.document}}

\* the first render of every form: useState initialisers, no ref attached yet
InitOn(pages, ads, trs, fts) ==
    /\ \E p \in pages : cfg = p.forms /\ route = p.route
    /\ actionData \in ads
    /\ transition \in trs
    /\ fetcher \in [DOMAIN cfg -> fts]
    /\ formRef = [g \in DOMAIN cfg |-> FALSE]
    /\ rendered = [g \in DOMAIN cfg |-> RenderForm(g, actionData, transition, fetcher)]
    /\ fieldErrors = [g \in DOMAIN cfg |->
                         IF HasFieldErrors(rendered[g].backendError)
                         THEN [obj |-> rendered[g].backendError.fieldErrors,
                               ref |-> rendered[g].backendError.ref]
                         ELSE [obj |-> EmptyObj, ref |-> [own |-> "form", id |-> 0]]]
    /\ touchedFields = [g \in DOMAIN cfg |-> EmptyObj]
    /\ hasBeenSubmitted = [g \in DOMAIN cfg |-> FALSE]
    /\ payload = [g \in DOMAIN cfg |-> InitialValues(cfg[g], rendered[g].defaults)]
    /\ handlers = [g \in DOMAIN cfg |-> [n \in Fields |-> <<>>]]
    /\ isPending = [g \in DOMAIN cfg |-> FALSE]
    /\ effectDeps = [g \in DOMAIN cfg |-> [own |-> "unset", id |-> 0]]
    /\ context = [g \in DOMAIN cfg |->
                     [deps |-> ContextDeps(HookState(g), rendered[g]),
                      value |-> ContextValue(HookState(g), rendered[g])]]
    /\ calls = <<>>

Init ==
    \E p \in Pages :
        InitOn({p}, InitialActionData(p.route), {NoSubmission}, {IdleFetcher})

\* what the caller's reset handler may do with the reset that a completing
\* submission triggers
CancelChoices ==
    IF \E g \in Mounted : isPending[g] /\ cfg[g].resetAfterSubmit
    THEN BOOLEAN ELSE {FALSE}

ForeignSubmissions ==
    {Foreign(a, s) : a \in {PageAction, "/other"}, s \in {Null, "s1", "s2"}}

Next ==
    \/ \E f \in FormIds : Mount(f)
    \/ \E f \in FormIds, n \in Fields, v \in Values : SetValue(f, n, v)
    \/ \E f \in FormIds, n \in Fields, t \in BOOLEAN : setFieldTouched(f, n, t)
    \/ \E f \in FormIds, n \in Fields : clearError(f, n)
    \/ \E f \in FormIds, n \in Fields : ValidateField(f, n)
    \/ \E f \in FormIds, n \in Fields, h \in 1..1 : registerReceiveFocus(f, n, h)
    \/ \E f \in FormIds, n \in Fields, h \in 1..1 : unregisterReceiveFocus(f, n, h)
    \/ \E f \in FormIds, p \in BOOLEAN, c \in CancelChoices : onSubmit(f, p, c)
    \/ \E f \in FormIds, c \in BOOLEAN : Reset(f, c)
    \/ \E sub \in ForeignSubmissions, c \in CancelChoices : ForeignSubmit(sub, c)
    \/ \E d \in Responses(FreshEnvRef) : ActionResponse(d, FALSE)
    \/ \E c \in CancelChoices : TransitionIdle(c)
    \/ \E f \in FormIds, d \in Responses(FreshEnvRef), c \in CancelChoices :
           FetcherResponse(f, d, c)
    \/ \E f \in FormIds : FetcherIdle(f)
    \/ Rerender

Spec == Init /\ [][Next]_vars

-----------------------------------------------------------------------------
(* The hooks on their own: every combination of props, page state and
   fetcher state the first render can see *)

HookPages ==
    { Page(1 :> (Props(sub, act, ftch, FALSE, FALSE, FALSE, Absent, <<>>, {})
                 @@ Children({}, {}, {})),
           Route({}, {}, {}, FALSE)) :
        sub \in {Undefined, "", "s1", "s2"}, act \in {Undefined, "/other"},
        ftch \in BOOLEAN }

HookData(ref, tags) ==
    {NoData} \cup {[kind |-> k, fieldErrors |-> IF k = "error" THEN ServerErrors ELSE EmptyObj,
                    subaction |-> s, repopulateFields |-> Absent, ref |-> ref] :
                       k \in {"ok", "error"}, s \in tags}

HookSubmissions ==
    {NoSubmission} \cup {Foreign(a, s) : a \in {PageAction, "/other"},
                                         s \in {Null, "", "s1", "s2"}}

HookFetchers ==
    {[state |-> st, data |-> d] :
        st \in {"idle", "submitting", "loading"},
        d \in HookData([own |-> "env", id |-> 2], {Undefined, "s1", "s2"})}

InitHooks ==
    InitOn(HookPages,
           HookData([own |-> "env", id |-> 1], {Undefined, Null, "", "s1", "s2"}),
           HookSubmissions, HookFetchers)

NextHooks ==
    \/ \E f \in FormIds : Mount(f)
    \/ Rerender

SpecHooks == InitHooks /\ [][NextHooks]_vars

-----------------------------------------------------------------------------
(* Properties *)

Failing(f) == validate(cfg[f].required, payload[f]).error

\* C1: a submit of a payload that fails validation leaves the Field Error
\* Store equal to the failure's fieldErrors, with no key of the previous
\* store kept, cancels the submit event, makes no network submission, does
\* not call the success callback and does not make the form submitting.
C1_FailedSubmitReplacesAndBlocks ==
    [][\A f \in FormIds :
          (IsForm(f) /\ formRef[f] /\ Failing(f)
           /\ \E p \in BOOLEAN, c \in BOOLEAN : onSubmit(f, p, c))
          => /\ fieldErrors'[f].obj = validate(cfg[f].required, payload[f]).fieldErrors
             /\ CallsIn(calls', "preventDefault", f) /= <<>>
             /\ CallsIn(calls', "submit", f) = <<>>
             /\ CallsIn(calls', "onSubmit", f) = <<>>
             /\ transition' = transition /\ fetcher' = fetcher
             /\ rendered'[f].isSubmitting = rendered[f].isSubmitting]_vars

\* a failed submit has just replaced errors seeded by the server
C1_Witness ==
    \E f \in DOMAIN cfg :
        /\ CallsOf("preventDefault", f) /= <<>>
        /\ HasFieldErrors(rendered[f].backendError)
        /\ fieldErrors[f].obj = ("b" :> "required")
        /\ rendered[f].backendError.fieldErrors = ("a" :> "server")

\* C2: a submit of a payload that passes validation is not cancelled by the
\* form (the network submission is made unless the caller's own callback
\* cancels the event), and the success callback, when there is one, is
\* called exactly once with exactly the validated data; a submit that fails
\* validation never calls it.
C2_ValidSubmitProceeds ==
    [][\A f \in FormIds :
          (IsForm(f) /\ formRef[f] /\ \E p \in BOOLEAN, c \in BOOLEAN : onSubmit(f, p, c))
          => LET result == validate(cfg[f].required, payload[f])
                 cb == CallsIn(calls', "onSubmit", f)
             IN IF result.error
                THEN cb = <<>>
                ELSE /\ CallsIn(calls', "preventDefault", f) = <<>>
                     /\ cb = IF cfg[f].hasOnSubmit
                             THEN <<Call("onSubmit", f, "", 0, Present(payload[f]))>>
                             ELSE <<>>
                     /\ \/ Len(CallsIn(calls', "submit", f)) = 1
                           /\ rendered'[f].isSubmitting
                        \/ /\ cfg[f].hasOnSubmit
                           /\ CallsIn(calls', "submit", f) = <<>>
                           /\ onSubmit(f, TRUE, FALSE) \/ onSubmit(f, TRUE, TRUE)]_vars

\* a valid submit has called the success callback and gone to the network
C2_Witness ==
    \E f \in DOMAIN cfg :
        /\ Len(CallsOf("onSubmit", f)) = 1
        /\ CallsOf("onSubmit", f)[1].data = Present(payload[f])
        /\ Len(CallsOf("submit", f)) = 1
        /\ rendered[f].isSubmitting

\* C3: the submission-completion callback of a form runs exactly once in a
\* step that takes its isSubmitting from true to false, and in no other step.
C3_CompleteOncePerTransition ==
    [][\A f \in FormIds :
          (IsForm(f) /\ formRef[f])
          => Len(CallsIn(calls', "complete", f))
               = IF rendered[f].isSubmitting /\ ~rendered'[f].isSubmitting
                 THEN 1 ELSE 0]_vars

\* a submission of the form has just completed
C3_Witness ==
    \E f \in DOMAIN cfg :
        /\ Len(CallsOf("complete", f)) = 1
        /\ ~rendered[f].isSubmitting
        /\ hasBeenSubmitted[f]

\* C4: a reset event the caller's handler does not cancel leaves fieldErrors
\* and touchedFields empty and hasBeenSubmitted false; a reset event the
\* caller's handler cancels leaves all three as they were.
C4_ResetUnlessCancelled ==
    [][\A f \in FormIds :
          (IsForm(f) /\ CallsIn(calls', "onReset", f) /= <<>>)
          => IF CallsIn(calls', "onReset", f)[1].name = "cancel"
             THEN /\ fieldErrors'[f] = fieldErrors[f]
                  /\ touchedFields'[f] = touchedFields[f]
                  /\ hasBeenSubmitted'[f] = hasBeenSubmitted[f]
             ELSE /\ fieldErrors'[f].obj = EmptyObj
                  /\ touchedFields'[f] = EmptyObj
                  /\ hasBeenSubmitted'[f] = FALSE]_vars

\* a cancelled reset has kept errors, touched fields and hasBeenSubmitted
C4_Witness ==
    \E f \in DOMAIN cfg :
        /\ CallsOf("onReset", f) /= <<>>
        /\ CallsOf("onReset", f)[1].name = "cancel"
        /\ fieldErrors[f].obj /= EmptyObj
        /\ touchedFields[f] /= EmptyObj
        /\ hasBeenSubmitted[f]

\* a page response has just arrived: the step is ActionResponse
Arrived == ActionResponse(actionData', FALSE)

\* f and g are mounted forms of the page that share an action and declare
\* distinct subactions
Siblings(f, g) ==
    /\ IsForm(f) /\ IsForm(g) /\ f /= g /\ formRef[f] /\ formRef[g]
    /\ ~cfg[f].fetcher /\ ~cfg[g].fetcher /\ cfg[f].action = cfg[g].action
    /\ Truthy(cfg[f].subaction) /\ Truthy(cfg[g].subaction)
    /\ cfg[f].subaction /= cfg[g].subaction

\* the response that arrives seeds the store and the default values of form f
SeedsForm(f) ==
    /\ fieldErrors'[f] = [obj |-> actionData'.fieldErrors, ref |-> actionData'.ref]
    /\ rendered'[f].defaults
         = IF actionData'.repopulateFields.present
           THEN actionData'.repopulateFields ELSE cfg[f].defaultValues

\* C5 as stated: an error response tagged with the subaction of form f seeds
\* form f, and leaves the Field Error Store and the default values of its
\* sibling g unchanged.
C5_SiblingUnchanged ==
    [][\A f \in FormIds, g \in FormIds :
          (Siblings(f, g) /\ Arrived /\ HasFieldErrors(actionData')
           /\ actionData'.subaction = cfg[f].subaction)
          => /\ SeedsForm(f)
             /\ fieldErrors'[g] = fieldErrors[g]
             /\ rendered'[g].defaults = rendered[g].defaults]_vars

\* C5 amended: an error response tagged with the subaction of form f seeds
\* form f only; the Field Error Store of its sibling g is unchanged and g
\* takes nothing from the response: after it g has no error response and its
\* default values are the caller-supplied ones.
C5_SubactionIsolation ==
    [][\A f \in FormIds, g \in FormIds :
          (Siblings(f, g) /\ Arrived /\ HasFieldErrors(actionData')
           /\ actionData'.subaction = cfg[f].subaction)
          => /\ SeedsForm(f)
             /\ fieldErrors'[g] = fieldErrors[g]
             /\ rendered'[g].backendError = NoData
             /\ rendered'[g].defaults = cfg[g].defaultValues]_vars

\* a response tagged s1 has seeded form 1 while form 2 keeps the errors an
\* earlier response tagged s2 gave it
C5_Witness ==
    /\ DOMAIN cfg = {1, 2} /\ formRef[1] /\ formRef[2]
    /\ HasFieldErrors(actionData) /\ actionData.subaction = cfg[1].subaction
    /\ actionData.repopulateFields.present
    /\ fieldErrors[1].ref = actionData.ref
    /\ rendered[1].defaults = actionData.repopulateFields
    /\ fieldErrors[2].obj = ServerErrors /\ fieldErrors[2].ref /= actionData.ref
    /\ rendered[2].defaults = cfg[2].defaultValues

\* the rule of the claim: the subactions are equal when the form declares
\* one, and neither side carries one otherwise
ClaimAdopts(sub, respSub) ==
    \/ Truthy(sub) /\ respSub = sub
    \/ ~Truthy(sub) /\ ~Truthy(respSub)

\* the response a form is given: its fetcher's when it has one, the page's
\* otherwise
DeliveredTo(f) == IF cfg[f].fetcher THEN fetcher[f].data ELSE actionData

\* C6 as stated: with or without a fetcher, the form adopts an error response
\* exactly when the subaction rule holds.
C6_AdoptsBySubactionAlways ==
    \A f \in DOMAIN cfg :
        HasFieldErrors(DeliveredTo(f))
        => ((rendered[f].backendError = DeliveredTo(f))
              <=> ClaimAdopts(cfg[f].subaction, DeliveredTo(f).subaction))

\* C6 amended: a form without a fetcher adopts the page's error response
\* exactly when the subaction rule holds; a form with a fetcher adopts the
\* error response of its fetcher whatever the subactions are, and never the
\* page's.
C6_AdoptsBySubaction ==
    \A f \in DOMAIN cfg :
        IF cfg[f].fetcher
        THEN rendered[f].backendError
               = IF HasFieldErrors(fetcher[f].data) THEN fetcher[f].data ELSE NoData
        ELSE rendered[f].backendError
               = IF HasFieldErrors(actionData)
                    /\ ClaimAdopts(cfg[f].subaction, actionData.subaction)
                 THEN actionData ELSE NoData

\* a form without a fetcher has adopted a response by the subaction rule, and
\* would not have adopted the same response under another subaction
C6_Witness ==
    \E f \in DOMAIN cfg :
        /\ ~cfg[f].fetcher /\ cfg[f].subaction = "s1"
        /\ HasFieldErrors(actionData) /\ actionData.subaction = "s1"
        /\ rendered[f].backendError = actionData
        /\ formRef[f]

\* C7: without a fetcher isSubmitting is true exactly when a page submission
\* is pending whose action is the form's action (the page's when the form
\* has none) and whose subaction is the form's (none when the form declares
\* none); with a fetcher it is true exactly when the fetcher is submitting.
C7_IsSubmittingRule ==
    \A f \in DOMAIN cfg :
        rendered[f].isSubmitting
          <=> IF cfg[f].fetcher
              THEN fetcher[f].state = "submitting"
              ELSE /\ transition.pending
                   /\ transition.action
                        = (IF cfg[f].action = Undefined THEN PageAction ELSE cfg[f].action)
                   /\ IF Truthy(cfg[f].subaction)
                      THEN transition.subaction = cfg[f].subaction
                      ELSE transition.subaction \in {Null, ""}

\* a form with an action and a subaction of its own is submitting
C7_Witness ==
    \E f \in DOMAIN cfg :
        /\ formRef[f] /\ ~cfg[f].fetcher
        /\ cfg[f].action = "/other" /\ cfg[f].subaction = "s1"
        /\ transition = Foreign("/other", "s1")
        /\ rendered[f].isSubmitting

\* C8: a validateField(name) that directly follows a validateField(name) of
\* the same form changes nothing: the Field Error Store keeps its reference
\* and the values FormState is built from stay the same.
C8_ValidateFieldIdempotent ==
    [][\A f \in FormIds, n \in Fields :
          (IsForm(f) /\ formRef[f]
           /\ calls = <<Call("validateField", f, n, 0, Absent)>>
           /\ ValidateField(f, n))
          => /\ fieldErrors'[f] = fieldErrors[f]
             /\ touchedFields'[f] = touchedFields[f]
             /\ hasBeenSubmitted'[f] = hasBeenSubmitted[f]
             /\ rendered'[f] = rendered[f]]_vars

\* validateField has just found the field invalid; a second call can follow
C8_Witness ==
    \E f \in DOMAIN cfg, n \in Fields :
        /\ calls = <<Call("validateField", f, n, 0, Absent)>>
        /\ n \in DOMAIN fieldErrors[f].obj
        /\ fieldErrors[f].obj[n] = validateField(cfg[f].required, payload[f], n).error
        /\ ENABLED ValidateField(f, n)

VisibleInvalid(f) ==
    SelectSeq(InvalidInputs(fieldErrors[f].obj, cfg[f].inputs),
              LAMBDA i : i.type /= "hidden")

\* C10: after a failed submit with focus on error enabled and no custom focus
\* handler registered for an invalid field, the first invalid input that is
\* not hidden has received focus and nothing else has; when every invalid
\* input is hidden nothing has received focus.
C10_HiddenInputNeverFocused ==
    \A f \in DOMAIN cfg :
        (/\ CallsOf("preventDefault", f) /= <<>>
         /\ ~cfg[f].disableFocusOnError
         /\ \A n \in DOMAIN fieldErrors[f].obj : ~has(handlers[f], n))
        => /\ CallsOf("handler", f) = <<>>
           /\ CallsOf("focus", f)
                = IF VisibleInvalid(f) = <<>> THEN <<>>
                  ELSE <<Call("focus", f, Head(VisibleInvalid(f)).name, 0, Absent)>>

\* a and b are invalid, a is a hidden input that comes first, and b has
\* received focus
C10_Witness ==
    \E f \in DOMAIN cfg :
        /\ DOMAIN fieldErrors[f].obj = {"a", "b"}
        /\ cfg[f].inputs = <<Input("a", "hidden"), Input("b", "text")>>
        /\ CallsOf("focus", f) = <<Call("focus", f, "b", 0, Absent)>>

\* a submission of form f completes in this step
Completes(f) == IsForm(f) /\ formRef[f] /\ CallsIn(calls', "complete", f) /= <<>>

\* the three stores of form f are in their initial state after the step
StoresCleared(f) ==
    /\ fieldErrors'[f].obj = EmptyObj
    /\ touchedFields'[f] = EmptyObj
    /\ hasBeenSubmitted'[f] = FALSE

\* the step did not reset form f: no reset event, the touched fields and
\* hasBeenSubmitted are kept, and the errors are kept or are the response's
NotReset(f) ==
    /\ CallsIn(calls', "onReset", f) = <<>>
    /\ touchedFields'[f] = touchedFields[f]
    /\ hasBeenSubmitted'[f] = hasBeenSubmitted[f]
    /\ \/ fieldErrors'[f] = fieldErrors[f]
       \/ /\ HasFieldErrors(rendered'[f].backendError)
          /\ fieldErrors'[f] = [obj |-> rendered'[f].backendError.fieldErrors,
                                ref |-> rendered'[f].backendError.ref]

\* C11 as stated: with resetAfterSubmit, every completion without an error
\* response for the form leaves the three stores cleared; a completion with
\* an error response, or without resetAfterSubmit, resets nothing.
C11_CompletionAlwaysResets ==
    [][\A f \in FormIds :
          Completes(f)
          => IF cfg[f].resetAfterSubmit /\ ~HasFieldErrors(rendered'[f].backendError)
             THEN StoresCleared(f)
             ELSE NotReset(f)]_vars

\* C11 amended: with resetAfterSubmit, every completion without an error
\* response for the form resets the form element; the three stores are
\* cleared unless the caller's reset handler cancels that reset event, and
\* are then kept as they were. A completion with an error response, or
\* without resetAfterSubmit, resets nothing.
C11_ResetAfterSubmit ==
    [][\A f \in FormIds :
          Completes(f)
          => IF cfg[f].resetAfterSubmit /\ ~HasFieldErrors(rendered'[f].backendError)
             THEN /\ Len(CallsIn(calls', "onReset", f)) = 1
                  /\ IF CallsIn(calls', "onReset", f)[1].name = "cancel"
                     THEN /\ fieldErrors'[f] = fieldErrors[f]
                          /\ touchedFields'[f] = touchedFields[f]
                          /\ hasBeenSubmitted'[f] = hasBeenSubmitted[f]
                     ELSE StoresCleared(f)
             ELSE NotReset(f)]_vars

\* a successful submission of a form with resetAfterSubmit has just completed
\* and the reset it triggered has cleared the stores
C11_Witness ==
    \E f \in DOMAIN cfg :
        /\ cfg[f].resetAfterSubmit
        /\ Len(CallsOf("complete", f)) = 1
        /\ ~HasFieldErrors(rendered[f].backendError)
        /\ Len(CallsOf("onReset", f)) = 1 /\ CallsOf("onReset", f)[1].name = ""
        /\ fieldErrors[f].obj = EmptyObj /\ touchedFields[f] = EmptyObj
        /\ ~hasBeenSubmitted[f]

\* the store of form f as the error response d seeds it
Seed(d) == [obj |-> d.fieldErrors, ref |-> d.ref]

\* C12: the Field Error Store starts as the fieldErrors of the error response
\* matched to the form, empty when there is none; and in every step in which
\* the form is given a new matched error response the store becomes that
\* response's fieldErrors, whatever it held before.
C12_SeededFromResponse ==
    /\ \A f \in DOMAIN cfg :
          IF HasFieldErrors(rendered[f].backendError)
          THEN fieldErrors[f] = Seed(rendered[f].backendError)
          ELSE fieldErrors[f].obj = EmptyObj
    /\ [][\A f \in FormIds :
             (IsForm(f) /\ HasFieldErrors(rendered'[f].backendError)
              /\ rendered'[f].backendError.ref /= rendered[f].backendError.ref)
             => fieldErrors'[f] = Seed(rendered'[f].backendError)]_vars

\* a later error response has seeded the store of a form that had already
\* been submitted
C12_Witness ==
    \E f \in DOMAIN cfg :
        /\ formRef[f] /\ hasBeenSubmitted[f]
        /\ HasFieldErrors(rendered[f].backendError)
        /\ fieldErrors[f] = Seed(rendered[f].backendError)
        /\ rendered[f].backendError.ref.id >= 2
        /\ calls = <<>>

\* C13: in every state the isValid of the context value is true exactly when
\* the Field Error Store has no entries.
C13_IsValidIffNoErrors ==
    \A f \in DOMAIN cfg :
        context[f].value.isValid <=> (DOMAIN fieldErrors[f].obj = {})

\* validateField has removed the last error of the store and isValid is true
C13_Witness ==
    \E f \in DOMAIN cfg, n \in Fields :
        /\ calls = <<Call("validateField", f, n, 0, Absent)>>
        /\ hasBeenSubmitted[f]
        /\ fieldErrors[f].obj = EmptyObj
        /\ fieldErrors[f].ref.own = "form"
        /\ context[f].value.isValid

\* the response given to form f is an error response that f takes as its own
Matched(f) ==
    /\ HasFieldErrors(DeliveredTo(f))
    /\ cfg[f].fetcher \/ ClaimAdopts(cfg[f].subaction, DeliveredTo(f).subaction)

\* C14: for a mounted form, the defaultValues of the context value are the
\* repopulation payload of the error response matched to the form whenever
\* there is one, and the caller's default values in every other state.
C14_DefaultValueResolution ==
    \A f \in DOMAIN cfg :
        formRef[f]
        => context[f].value.defaultValues
             = IF Matched(f) /\ DeliveredTo(f).repopulateFields.present
               THEN DeliveredTo(f).repopulateFields
               ELSE cfg[f].defaultValues

\* a form with default values of its own exposes the payload of a matched
\* error response instead
C14_Witness ==
    \E f \in DOMAIN cfg :
        /\ formRef[f] /\ cfg[f].defaultValues.present
        /\ Matched(f) /\ DeliveredTo(f).repopulateFields.present
        /\ DeliveredTo(f).repopulateFields /= cfg[f].defaultValues
        /\ context[f].value.defaultValues = DeliveredTo(f).repopulateFields

\* C15: validateField(name) on a form whose element is not mounted stops at
\* the invariant: the Validator is not called and fieldErrors, touchedFields
\* and hasBeenSubmitted are unchanged. On a mounted form neither validateField
\* nor a failing submit raises: the failure ends up in the Field Error Store.
C15_UnmountedValidateFieldAborts ==
    [][\A f \in FormIds :
          /\ \A n \in Fields :
                (IsForm(f) /\ ValidateField(f, n))
                => IF ~formRef[f]
                   THEN /\ calls' = <<Call("invariant", f, n, 0, Absent)>>
                        /\ fieldErrors'[f] = fieldErrors[f]
                        /\ touchedFields'[f] = touchedFields[f]
                        /\ hasBeenSubmitted'[f] = hasBeenSubmitted[f]
                   ELSE /\ CallsIn(calls', "invariant", f) = <<>>
                        /\ LET res == validateField(cfg[f].required, payload[f], n)
                           IN res.hasError
                              => /\ n \in DOMAIN fieldErrors'[f].obj
                                 /\ fieldErrors'[f].obj[n] = res.error
          /\ (IsForm(f) /\ formRef[f] /\ Failing(f)
              /\ \E p \in BOOLEAN, c \in BOOLEAN : onSubmit(f, p, c))
             => /\ CallsIn(calls', "invariant", f) = <<>>
                /\ DOMAIN fieldErrors'[f].obj
                     = DOMAIN validate(cfg[f].required, payload[f]).fieldErrors]_vars

\* validateField has just been refused on a form that is not mounted and that
\* holds errors seeded by the server
C15_Witness ==
    \E f \in DOMAIN cfg, n \in Fields :
        /\ ~formRef[f]
        /\ calls = <<Call("invariant", f, n, 0, Absent)>>
        /\ fieldErrors[f].obj = ServerErrors

\* the order in which the validator produces the errors of a failure: the
\* order of the fields in its schema
ErrorOrder == <<"a", "b">>

\* the failing field names of form f in the order their errors were produced
FailingNames(f) == SelectSeq(ErrorOrder, LAMBDA n : n \in DOMAIN fieldErrors[f].obj)

\* form f has just had a failed submit with focus on error enabled
FocusRan(f) == CallsOf("preventDefault", f) /= <<>> /\ ~cfg[f].disableFocusOnError

\* the focus and handler calls of the last step for form f
FocusCalls(f) == SelectSeq(calls, LAMBDA x : x.form = f /\ x.call \in {"focus", "handler"})

\* every handler registered for name n of form f, in registration order
HandlerCalls(f, n) ==
    [k \in 1..Len(handlers[f][n]) |-> Call("handler", f, n, handlers[f][n][k], Absent)]

\* the field of name n in form f is a hidden input
IsHidden(f, n) ==
    \E k \in 1..Len(cfg[f].inputs) :
        cfg[f].inputs[k].name = n /\ cfg[f].inputs[k].type = "hidden"

\* the search of the claim, over field names
RECURSIVE SearchNames(_, _)
SearchNames(f, names) ==
    IF names = <<>> THEN <<>>
    ELSE IF has(handlers[f], Head(names)) THEN HandlerCalls(f, Head(names))
    ELSE IF IsHidden(f, Head(names)) THEN SearchNames(f, Tail(names))
    ELSE <<Call("focus", f, Head(names), 0, Absent)>>

\* C16 as stated: the search goes through the failing field names in the
\* order their errors were produced.
C16_FocusInErrorOrder ==
    \A f \in DOMAIN cfg :
        FocusRan(f) => FocusCalls(f) = SearchNames(f, FailingNames(f))

\* C16 amended: the search goes through the input elements of the form that
\* carry a failing name, in document order. The first of them that has a
\* handler registered for its name or is not hidden ends the search: with a
\* handler, all handlers of that name are invoked and nothing is focused;
\* without, the input is focused. When there is no such input nothing is
\* focused and no handler is invoked.
C16_FocusInDocumentOrder ==
    \A f \in DOMAIN cfg :
        FocusRan(f)
        => LET c == InvalidInputs(fieldErrors[f].obj, cfg[f].inputs)
               K == {k \in 1..Len(c) : has(handlers[f], c[k].name) \/ c[k].type /= "hidden"}
           IN IF K = {} THEN FocusCalls(f) = <<>>
              ELSE LET n == c[CHOOSE k \in K : \A j \in K : k <= j].name
                   IN FocusCalls(f) = IF has(handlers[f], n)
                                      THEN HandlerCalls(f, n)
                                      ELSE <<Call("focus", f, n, 0, Absent)>>

\* a hidden input that comes first in the form has two handlers registered,
\* both were invoked, and the visible invalid input after it was not focused
C16_Witness ==
    \E f \in DOMAIN cfg :
        /\ FocusRan(f)
        /\ cfg[f].inputs = <<Input("a", "hidden"), Input("b", "text")>>
        /\ DOMAIN fieldErrors[f].obj = {"a", "b"}
        /\ Len(handlers[f]["a"]) = 2
        /\ FocusCalls(f) = HandlerCalls(f, "a")

\* form f handles a submit event in this step
Submits(f) ==
    IsForm(f) /\ formRef[f] /\ \E p \in BOOLEAN, c \in BOOLEAN : onSubmit(f, p, c)

\* a reset event of form f that was not cancelled is handled in this step
ResetsUncancelled(f) ==
    \E k \in 1..Len(calls') :
        calls'[k] = Call("onReset", f, "", 0, Absent)

\* C17: hasBeenSubmitted is false initially, is true after every submit
\* event whether validation passes or fails, and goes from true to false
\* only in a step that handles a reset event that was not cancelled.
C17_HasBeenSubmittedLatch ==
    /\ \A f \in DOMAIN cfg : ~hasBeenSubmitted[f]
    /\ [][\A f \in FormIds :
             /\ Submits(f) => hasBeenSubmitted'[f]
             /\ (IsForm(f) /\ hasBeenSubmitted[f] /\ ~hasBeenSubmitted'[f])
                => ResetsUncancelled(f)]_vars

\* a submission of a submitted form has completed with an error response
\* and hasBeenSubmitted is still true
C17_Witness ==
    \E f \in DOMAIN cfg :
        /\ hasBeenSubmitted[f]
        /\ CallsOf("complete", f) /= <<>>
        /\ CallsOf("onReset", f) = <<>>
        /\ HasFieldErrors(rendered[f].backendError)

\* C18: the Touched Field Store starts empty; setFieldTouched(name, touched)
\* leaves it with the entry of name equal to touched and every other entry
\* as it was; and no step other than one that handles a reset event that was
\* not cancelled removes a key from it.
C18_TouchedMergeOnWrite ==
    /\ \A f \in DOMAIN cfg : touchedFields[f] = EmptyObj
    /\ [][\A f \in FormIds :
             /\ \A n \in Fields, t \in BOOLEAN :
                   setFieldTouched(f, n, t)
                   => /\ DOMAIN touchedFields'[f] = DOMAIN touchedFields[f] \cup {n}
                      /\ touchedFields'[f][n] = t
                      /\ \A m \in DOMAIN touchedFields[f] \ {n} :
                            touchedFields'[f][m] = touchedFields[f][m]
             /\ (IsForm(f) /\ ~ResetsUncancelled(f))
                => DOMAIN touchedFields[f] \subseteq DOMAIN touchedFields'[f]]_vars

\* a field was touched and then marked untouched again: its key is kept
\* with the value false, next to the entry of the other field
C18_Witness ==
    \E f \in DOMAIN cfg :
        /\ DOMAIN touchedFields[f] = {"a", "b"}
        /\ touchedFields[f]["a"] = FALSE
        /\ touchedFields[f]["b"] = TRUE
        /\ CallsOf("onReset", f) = <<>>

\* C19: validateField(name) on a mounted form leaves the entry of name equal
\* to the error the Validator returns for the current payload, or absent
\* when it returns none, and leaves the entries of all other names, the
\* Touched Field Store and hasBeenSubmitted as they were.
C19_ValidateFieldOneKey ==
    [][\A f \in FormIds, n \in Fields :
          (IsForm(f) /\ formRef[f] /\ ValidateField(f, n))
          => LET res == validateField(cfg[f].required, payload[f], n)
                 old == fieldErrors[f].obj
                 new == fieldErrors'[f].obj
             IN /\ IF res.hasError
                   THEN n \in DOMAIN new /\ new[n] = res.error
                   ELSE n \notin DOMAIN new
                /\ DOMAIN new \ {n} = DOMAIN old \ {n}
                /\ \A m \in DOMAIN old \ {n} : new[m] = old[m]
                /\ touchedFields'[f] = touchedFields[f]
                /\ hasBeenSubmitted'[f] = hasBeenSubmitted[f]]_vars

\* validateField has removed the entry of a field that is valid again while
\* the error of the other field is still in the store
C19_Witness ==
    \E f \in DOMAIN cfg :
        /\ calls = <<Call("validateField", f, "a", 0, Absent)>>
        /\ payload[f]["a"] /= ""
        /\ hasBeenSubmitted[f]
        /\ fieldErrors[f].obj = ("b" :> "required")

\* the step focuses no input of form f and invokes none of its handlers
NoFocusChange(f) ==
    \A k \in 1..Len(calls') :
        calls'[k].form = f => calls'[k].call \notin {"focus", "handler"}

NewMatchedResponse(f) ==
    /\ HasFieldErrors(rendered'[f].backendError)
    /\ rendered'[f].backendError.ref /= rendered[f].backendError.ref

\* C21: the Field Error Store of a form changes only in a step that is a
\* failed submit of the form, a validateField or clearError of the form, a
\* reset of the form that was not cancelled, or the arrival of a new error
\* response matched to the form. Every other step (a submit that passes
\* validation, the start and the completion of a submission without a reset,
\* a response without fieldErrors, setFieldTouched, an edit) keeps the store,
\* reference included.
C21_StoreChangesOnlyBy ==
    [][\A f \in FormIds :
          (IsForm(f) /\ fieldErrors'[f] /= fieldErrors[f])
          => \/ Submits(f) /\ Failing(f)
             \/ formRef[f] /\ \E n \in Fields : ValidateField(f, n)
             \/ \E n \in Fields : clearError(f, n)
             \/ ResetsUncancelled(f)
             \/ NewMatchedResponse(f)]_vars

\* a submission that passed validation has completed with a response without
\* fieldErrors and without a reset: the errors the server seeded earlier are
\* still in the store and isValid is false
C21_Witness ==
    \E f \in DOMAIN cfg :
        /\ CallsOf("complete", f) /= <<>>
        /\ CallsOf("onReset", f) = <<>>
        /\ actionData.kind = "ok"
        /\ hasBeenSubmitted[f]
        /\ fieldErrors[f].obj = ServerErrors
        /\ fieldErrors[f].ref.own = "env"
        /\ ~context[f].value.isValid

====
